---- MODULE Spec2Model ----
(***************************************************************************)
(* A model of next-api-gen (src/index.js): the prompt wizard of main() and *)
(* the route emitter generateApiRoute().                                   *)
(*                                                                         *)
(* JavaScript strings are sequences of one-character strings, so that      *)
(* trim, split, path.join and template interpolation are computed the way  *)
(* the program computes them.  JavaScript values carry their type tag.     *)
(* Paths follow the POSIX flavour of node's path module.                   *)
(***************************************************************************)
EXTENDS Integers, Sequences, FiniteSets, TLC

(***************************************************************************)
(* JavaScript values                                                       *)
(***************************************************************************)
Str(s) == [t |-> "string", v |-> s]
Bool(b) == [t |-> "boolean", v |-> b]
Undefined == [t |-> "undefined", v |-> <<>>]
\* the symbol @clack/prompts returns from a prompt the user aborted
CancelSymbol == [t |-> "symbol", v |-> <<>>]

IsString(x) == x.t = "string"

\* a bug: the cancel symbol is not recognised
isCancel_Never(x) == FALSE

\* p.isCancel(answer)
isCancel(x) == x.t = "symbol"

\* the truthiness JavaScript gives a value in `a || b` and `a ? b : c`
Truthy(x) ==
    CASE x.t = "string" -> x.v # <<>>
      [] x.t = "boolean" -> x.v
      [] OTHER -> FALSE

\* a bug: the default replaces only undefined, as `a ?? b` does
OrElse_NullishOnly(a, b) == IF a.t = "undefined" THEN b ELSE a

\* a || b
OrElse(a, b) == IF Truthy(a) THEN a ELSE b

\* what `${x}` interpolates
ToChars(x) ==
    CASE x.t = "string" -> x.v
      [] x.t = "boolean" -> IF x.v THEN <<"t", "r", "u", "e">>
                                   ELSE <<"f", "a", "l", "s", "e">>
      [] OTHER -> <<"u", "n", "d", "e", "f", "i", "n", "e", "d">>

(***************************************************************************)
(* String.prototype.trim and String.prototype.split                        *)
(***************************************************************************)
IsWhitespace(c) == c \in {" ", "\t"}

RECURSIVE TrimStart(_)
TrimStart(s) ==
    IF s # <<>> /\ IsWhitespace(Head(s)) THEN TrimStart(Tail(s)) ELSE s

RECURSIVE TrimEnd(_)
TrimEnd(s) ==
    IF s # <<>> /\ IsWhitespace(s[Len(s)])
    THEN TrimEnd(SubSeq(s, 1, Len(s) - 1))
    ELSE s

trim(s) == TrimEnd(TrimStart(s))

\* s.split(sep) for a one-character separator: "" gives [""], "a/" gives ["a", ""]
RECURSIVE SplitFrom(_, _, _)
SplitFrom(s, sep, cur) ==
    IF s = <<>> THEN <<cur>>
    ELSE IF Head(s) = sep THEN <<cur>> \o SplitFrom(Tail(s), sep, <<>>)
    ELSE SplitFrom(Tail(s), sep, Append(cur, Head(s)))

split(s, sep) == SplitFrom(s, sep, <<>>)

\* parts.join(sep)
RECURSIVE JoinWith(_, _)
JoinWith(parts, sep) ==
    IF parts = <<>> THEN <<>>
    ELSE IF Len(parts) = 1 THEN parts[1]
    ELSE parts[1] \o <<sep>> \o JoinWith(Tail(parts), sep)

(***************************************************************************)
(* node's path module (posix)                                              *)
(***************************************************************************)
Dot == <<".">>
DotDot == <<".", ".">>

\* normalizeString: drops empty and "." segments, lets ".." remove the
\* segment before it; at the front of a relative path ".." is kept, at the
\* root of an absolute path it is dropped.
RECURSIVE NormalizeSegments(_, _, _)
NormalizeSegments(segs, res, allowAboveRoot) ==
    IF segs = <<>> THEN res
    ELSE LET seg == Head(segs)
             rest == Tail(segs)
         IN IF seg = <<>> \/ seg = Dot
            THEN NormalizeSegments(rest, res, allowAboveRoot)
            ELSE IF seg = DotDot
            THEN IF res # <<>> /\ res[Len(res)] # DotDot
                 THEN NormalizeSegments(rest, SubSeq(res, 1, Len(res) - 1), allowAboveRoot)
                 ELSE IF allowAboveRoot
                 THEN NormalizeSegments(rest, Append(res, DotDot), allowAboveRoot)
                 ELSE NormalizeSegments(rest, res, allowAboveRoot)
            ELSE NormalizeSegments(rest, Append(res, seg), allowAboveRoot)

isAbsolute(path) == path # <<>> /\ Head(path) = "/"

\* path.normalize
normalize(path) ==
    IF path = <<>> THEN Dot
    ELSE LET abs == isAbsolute(path)
             trailingSeparator == path[Len(path)] = "/"
             body == JoinWith(NormalizeSegments(split(path, "/"), <<>>, ~abs), "/")
         IN IF body = <<>>
            THEN IF abs THEN <<"/">>
                 ELSE IF trailingSeparator THEN <<".", "/">> ELSE Dot
            ELSE (IF abs THEN <<"/">> ELSE <<>>) \o body
                 \o (IF trailingSeparator THEN <<"/">> ELSE <<>>)

\* path.join(...args): empty arguments are skipped, the rest joined with "/"
\* and normalized
RECURSIVE NonEmptyArgs(_)
NonEmptyArgs(args) ==
    IF args = <<>> THEN <<>>
    ELSE IF Head(args) = <<>> THEN NonEmptyArgs(Tail(args))
    ELSE <<Head(args)>> \o NonEmptyArgs(Tail(args))

join(args) ==
    IF NonEmptyArgs(args) = <<>> THEN Dot
    ELSE normalize(JoinWith(NonEmptyArgs(args), "/"))

\* index of the last "/" of a path, 0 when it has none
RECURSIVE LastSlash(_)
LastSlash(path) ==
    IF path = <<>> THEN 0
    ELSE IF path[Len(path)] = "/" THEN Len(path)
    ELSE LastSlash(SubSeq(path, 1, Len(path) - 1))

\* path.dirname of a path without trailing separator
dirname(path) ==
    LET i == LastSlash(path)
    IN IF i = 0 THEN Dot
       ELSE IF i = 1 THEN <<"/">>
       ELSE SubSeq(path, 1, i - 1)

(***************************************************************************)
(* Program constants                                                       *)
(***************************************************************************)
GET == <<"G", "E", "T">>
POST == <<"P", "O", "S", "T">>
PUT == <<"P", "U", "T">>
PATCH == <<"P", "A", "T", "C", "H">>
DELETE == <<"D", "E", "L", "E", "T", "E">>

HttpMethod == <<GET, POST, PUT, PATCH, DELETE>>

\* process.cwd(): an absolute, normalized directory
Cwd == <<"/", "w">>

defaultConfig == [useTypeScript |-> Bool(FALSE), baseDir |-> Str(Cwd)]

basic == <<"b", "a", "s", "i", "c">>
withParams == <<"w", "i", "t", "h", "P", "a", "r", "a", "m", "s">>
withErrorHandling ==
    <<"w", "i", "t", "h", "E", "r", "r", "o", "r",
      "H", "a", "n", "d", "l", "i", "n", "g">>
withValidation ==
    <<"w", "i", "t", "h", "V", "a", "l", "i", "d", "a", "t", "i", "o", "n">>

\* Object.entries(templates) keys, in declaration order
TemplateKeys == <<basic, withParams, withErrorHandling, withValidation>>

Range(f) == {f[i] : i \in DOMAIN f}

\* templates[key]: a template object for the four keys, undefined otherwise
templates(key) ==
    IF IsString(key) /\ key.v \in Range(TemplateKeys)
    THEN [t |-> "template", v |-> key.v]
    ELSE Undefined

(***************************************************************************)
(* The four getContent renderers.  A rendered text is a sequence of        *)
(* fragments: the literal pieces of the template literal, and between them *)
(* the characters of each interpolated value.                              *)
(***************************************************************************)
ImportLine(useTypeScript) ==
    <<"\nimport { ">>
    \o (IF Truthy(useTypeScript) THEN <<"NextRequest, ">> ELSE <<>>)
    \o <<"NextResponse } from 'next/server';\n">>

\* a bug: the parameter is annotated whatever the flag
RequestParam_AlwaysTyped(useTypeScript) ==
    <<"(request", ": NextRequest">>

RequestParam(useTypeScript) ==
    <<"(request">>
    \o (IF Truthy(useTypeScript) THEN <<": NextRequest">> ELSE <<>>)

basicContent(method, routeName, useTypeScript) ==
    ImportLine(useTypeScript)
    \o <<"\n", "export async function ">> \o ToChars(method)
    \o RequestParam(useTypeScript) \o <<") {\n">>
    \o <<"  return NextResponse.json({ message: 'Hello from ">>
    \o ToChars(routeName) \o <<"!' }, { status: 200 });\n}\n">>

withParamsContent(method, routeName, useTypeScript) ==
    ImportLine(useTypeScript)
    \o <<"\n", "export async function ">> \o ToChars(method)
    \o RequestParam(useTypeScript) \o <<", { params }">>
    \o (IF Truthy(useTypeScript)
        THEN <<": { params: { [key: string]: string } }">> ELSE <<>>)
    \o <<") {\n">>
    \o <<"  const queryParams = request.nextUrl.searchParams\n">>
    \o <<"  return NextResponse.json({\n    message: 'Hello from ">>
    \o ToChars(routeName)
    \o <<"!',\n    pathParams: params,\n    queryParams,\n  });\n}\n">>

withErrorHandlingContent(method, routeName, useTypeScript) ==
    ImportLine(useTypeScript)
    \o <<"\n", "export async function ">> \o ToChars(method)
    \o RequestParam(useTypeScript) \o <<") {\n">>
    \o <<"  try {\n    // Your logic here\n">>
    \o <<"    return NextResponse.json({ message: 'Hello from ">>
    \o ToChars(routeName) \o <<"!' }, { status: 200 });\n">>
    \o <<"  } catch (error) {\n    console.error('Error in ">>
    \o ToChars(routeName) \o <<":', error);\n">>
    \o <<"    return NextResponse.json({ error: 'Internal Server Error' }, { status: 500 });\n">>
    \o <<"  }\n}\n">>

withValidationContent(method, routeName, useTypeScript) ==
    ImportLine(useTypeScript)
    \o <<"import { z } from 'zod';\n\n">>
    \o <<"const schema = z.object({\n  name: z.string().min(1),\n  email: z.string().email(),\n});\n">>
    \o <<"\n", "export async function ">> \o ToChars(method)
    \o RequestParam(useTypeScript) \o <<") {\n">>
    \o <<"  try {\n    const body = await request.json();\n">>
    \o <<"    const validatedData = schema.parse(body);\n">>
    \o <<"    return NextResponse.json({ message: 'Data validated successfully', data: validatedData });\n">>
    \o <<"  } catch (error) {\n    if (error instanceof z.ZodError) {\n">>
    \o <<"      return NextResponse.json({ error: 'Validation failed', details: error.errors }, { status: 400 });\n">>
    \o <<"    }\n    console.error('Error in ">>
    \o ToChars(routeName) \o <<":', error);\n">>
    \o <<"    return NextResponse.json({ error: 'Internal Server Error' }, { status: 500 });\n">>
    \o <<"  }\n}\n">>

\* a bug: the method and the route name change places
getContent_SwappedArgs(template, method, routeName, useTypeScript) ==
    CASE template.v = basic -> basicContent(routeName, method, useTypeScript)
      [] template.v = withParams -> withParamsContent(routeName, method, useTypeScript)
      [] template.v = withErrorHandling ->
            withErrorHandlingContent(routeName, method, useTypeScript)
      [] template.v = withValidation ->
            withValidationContent(routeName, method, useTypeScript)

\* template.getContent(method, routeName, useTypeScript)
getContent(template, method, routeName, useTypeScript) ==
    CASE template.v = basic -> basicContent(method, routeName, useTypeScript)
      [] template.v = withParams -> withParamsContent(method, routeName, useTypeScript)
      [] template.v = withErrorHandling ->
            withErrorHandlingContent(method, routeName, useTypeScript)
      [] template.v = withValidation ->
            withValidationContent(method, routeName, useTypeScript)

(***************************************************************************)
(* The file system: the regular files with their content and the           *)
(* directories, both keyed by absolute normalized path.                    *)
(***************************************************************************)
\* path.resolve against process.cwd(), as fs does for a relative path
resolve(path) ==
    IF isAbsolute(path) THEN normalize(path)
    ELSE normalize(Cwd \o <<"/">> \o path)

\* a directory and every directory above it, up to the root
Ancestors(dir) ==
    LET segs == NormalizeSegments(split(resolve(dir), "/"), <<>>, FALSE)
    IN {<<"/">> \o JoinWith(SubSeq(segs, 1, k), "/") : k \in 0..Len(segs)}

\* fs.mkdirSync(dir, { recursive: true }): no error when the directories
\* exist; throws when a name on the way is a regular file, or when the
\* system refuses (fault)
mkdirSyncThrows(d, dir, fault) ==
    \/ fault = "mkdir"
    \/ \E a \in Ancestors(dir) : a \in DOMAIN d.files

mkdirSync(d, dir) == [d EXCEPT !.dirs = @ \cup Ancestors(dir)]

\* fs.writeFileSync(path, content), flag 'w': creates or truncates the file;
\* throws when the path is a directory, when its parent is missing, or when
\* the system refuses (fault)
writeFileSyncThrows(d, path, fault) ==
    \/ fault = "write"
    \/ resolve(path) \in d.dirs
    \/ resolve(dirname(path)) \notin d.dirs

\* a bug: flag 'a', the text is appended to the file that is there
writeFileSync_Append(d, path, content) ==
    [d EXCEPT !.files =
        [q \in DOMAIN d.files \cup {resolve(path)} |->
            IF q # resolve(path) THEN d.files[q]
            ELSE IF q \in DOMAIN d.files THEN d.files[q] \o content
            ELSE content]]

writeFileSync(d, path, content) ==
    [d EXCEPT !.files =
        [q \in DOMAIN d.files \cup {resolve(path)} |->
            IF q = resolve(path) THEN content ELSE d.files[q]]]

(***************************************************************************)
(* generateApiRoute({ routeName, config, options }), run on disk d.        *)
(* The result holds the disk it leaves, what it printed, the fs calls that *)
(* completed, what it computed on the way, and whether its promise         *)
(* rejected.  Every step is inside the try block, so every error ends in   *)
(* the catch clause, which rethrows nothing.                               *)
(***************************************************************************)
ts == <<"t", "s">>
js == <<"j", "s">>
app == <<"a", "p", "p">>
api == <<"a", "p", "i">>
routeDot == <<"r", "o", "u", "t", "e", ".">>

NoPath == <<>>
NoContent == <<>>

\* a bug: the catch clause swallows the error without a word
Caught_NoLog(routeName, d, filePath, content, error) ==
    [disk |-> d, threw |-> TRUE, error |-> error, rejected |-> FALSE,
     filePath |-> filePath, content |-> content,
     fsCalls |-> IF error = "writeFileSync" THEN <<"mkdirSync">> ELSE <<>>,
     console |-> <<>>]

\* a bug: the two extensions change places
extensionOf_Swapped(useTypeScript) == IF Truthy(useTypeScript) THEN js ELSE ts

\* const extension = useTypeScript ? 'ts' : 'js'
extensionOf(useTypeScript) == IF Truthy(useTypeScript) THEN ts ELSE js

\* the catch clause: one console.error naming the route, nothing rethrown
Caught(routeName, d, filePath, content, error) ==
    [disk |-> d, threw |-> TRUE, error |-> error, rejected |-> FALSE,
     filePath |-> filePath, content |-> content,
     fsCalls |-> IF error = "writeFileSync" THEN <<"mkdirSync">> ELSE <<>>,
     console |-> <<[stream |-> "error",
                    text |-> "Error generating API route handler",
                    arg |-> routeName, detail |-> error]>>]

generateApiRoute(routeName, config, options, d, fault) ==
    LET useTypeScript ==
            IF options.useTypeScript.t = "undefined"
            THEN defaultConfig.useTypeScript ELSE options.useTypeScript
        baseDir ==
            IF options.baseDir.t = "undefined"
            THEN defaultConfig.baseDir ELSE options.baseDir
        extension == extensionOf(useTypeScript)
    IN IF ~IsString(routeName)
       THEN Caught(routeName, d, NoPath, NoContent, "TypeError: routeName.split")
       ELSE IF ~IsString(baseDir)
       THEN Caught(routeName, d, NoPath, NoContent, "TypeError: path.join")
       ELSE
       LET routeParts == split(routeName.v, "/")
           filePath == join(<<baseDir.v, app, api>> \o routeParts
                            \o <<routeDot \o extension>>)
       IN IF config.template.t # "template"
          THEN Caught(routeName, d, filePath, NoContent, "TypeError: getContent")
          ELSE
          LET content == getContent(config.template, config.method,
                                    routeName, useTypeScript)
          IN IF mkdirSyncThrows(d, dirname(filePath), fault)
             THEN Caught(routeName, d, filePath, content, "mkdirSync")
             ELSE IF writeFileSyncThrows(mkdirSync(d, dirname(filePath)), filePath, fault)
             THEN Caught(routeName, mkdirSync(d, dirname(filePath)),
                         filePath, content, "writeFileSync")
             ELSE [disk |-> writeFileSync(mkdirSync(d, dirname(filePath)),
                                          filePath, content),
                   threw |-> FALSE, error |-> "", rejected |-> FALSE,
                   filePath |-> filePath, content |-> content,
                   fsCalls |-> <<"mkdirSync", "writeFileSync">>,
                   console |-> <<[stream |-> "log",
                                  text |-> "API route handler generated",
                                  arg |-> Str(filePath), detail |-> ""]>>]

(***************************************************************************)
(* main(): the wizard                                                      *)
(***************************************************************************)
steps ==
    << <<"R", "o", "u", "t", "e", " ", "N", "a", "m", "e">>,
       <<"H", "T", "T", "P", " ", "M", "e", "t", "h", "o", "d">>,
       <<"T", "e", "m", "p", "l", "a", "t", "e">>,
       <<"T", "y", "p", "e", "S", "c", "r", "i", "p", "t">>,
       <<"B", "a", "s", "e", " ", "D", "i", "r", "e", "c", "t", "o", "r", "y">> >>

back == <<"b", "a", "c", "k">>

\* String.prototype.toLowerCase, on the letters the step names use
LowerOf(c) ==
    CASE c = "R" -> "r" [] c = "N" -> "n" [] c = "H" -> "h" [] c = "T" -> "t"
      [] c = "P" -> "p" [] c = "M" -> "m" [] c = "S" -> "s" [] c = "B" -> "b"
      [] c = "D" -> "d" [] OTHER -> c

toLowerCase(s) == [i \in DOMAIN s |-> LowerOf(s[i])]

\* s.replace(' ', ''): removes the first space only
RECURSIVE replaceFirstSpace(_)
replaceFirstSpace(s) ==
    IF s = <<>> THEN <<>>
    ELSE IF Head(s) = " " THEN Tail(s)
    ELSE <<Head(s)>> \o replaceFirstSpace(Tail(s))

\* the key an answer is stored under: step.toLowerCase().replace(' ', '')
KeyOf(step) == replaceFirstSpace(toLowerCase(step))

routename == <<"r", "o", "u", "t", "e", "n", "a", "m", "e">>
httpmethod == <<"h", "t", "t", "p", "m", "e", "t", "h", "o", "d">>
template == <<"t", "e", "m", "p", "l", "a", "t", "e">>
typescript == <<"t", "y", "p", "e", "s", "c", "r", "i", "p", "t">>
basedirectory ==
    <<"b", "a", "s", "e", "d", "i", "r", "e", "c", "t", "o", "r", "y">>

\* answers.key: undefined for a key never assigned
Get(obj, key) == IF key \in DOMAIN obj THEN obj[key] ELSE Undefined

\* answers[key] = value
Put(obj, key, value) ==
    [k \in DOMAIN obj \cup {key} |-> IF k = key THEN value ELSE obj[k]]

\* a bug: the value is compared without trimming
validate_NoTrim(value) ==
    IF value = <<>> THEN "Route name cannot be empty" ELSE ""

\* the validate callback of the Route Name prompt: the error message, or
\* "" for `return;`
validate(value) ==
    IF trim(value) = <<>> THEN "Route name cannot be empty" ELSE ""

Max(a, b) == IF a >= b THEN a ELSE b

\* a bug: the answer is compared with another literal
IsBack_WrongLiteral(answer) ==
    answer.t = "string" /\ answer.v = <<"B", "a", "c", "k">>

\* answer === 'back'
IsBack(answer) == IsString(answer) /\ answer.v = back

\* a bug: the TypeScript answer is stored but the cursor stays
StepAfter_Stuck(step, answer) ==
    IF answer.t = "string" /\ answer.v = back THEN Max(0, step - 1)
    ELSE IF step = 3 THEN step ELSE step + 1

\* a bug: going back is not clamped at the first step
StepAfter_NoClamp(step, answer) ==
    IF answer.t = "string" /\ answer.v = back THEN step - 1 ELSE step + 1

\* the cursor after an answer that is not a cancellation (lines 185-190)
StepAfter(step, answer) ==
    IF IsBack(answer) THEN Max(0, step - 1) ELSE step + 1

\* a bug: going back forgets the answer of the step being left
AnswersAfter_ClearOnBack(ans, step, answer) ==
    IF answer.t = "string" /\ answer.v = back
    THEN [k \in DOMAIN ans \ {KeyOf(steps[step + 1])} |-> ans[k]]
    ELSE Put(ans, KeyOf(steps[step + 1]), answer)

\* the answers object after an answer that is not a cancellation: 'back'
\* stores nothing, any other answer is stored under the key of its step
AnswersAfter(ans, step, answer) ==
    IF IsBack(answer) THEN ans
    ELSE Put(ans, KeyOf(steps[step + 1]), answer)

\* a bug: the loop ends one step early
LoopContinues_OffByOne(step) == step < Len(steps) - 1

\* the loop test: while (currentStep < steps.length)
LoopContinues(step) == step < Len(steps)

\* a bug: every prompt opens with its first-entry default
initialValue_NoPrefill(ans, step) ==
    CASE step = steps[1] -> Str(<<>>)
      [] step = steps[4] -> defaultConfig.useTypeScript
      [] step = steps[5] -> defaultConfig.baseDir
      [] OTHER -> Undefined

\* the initialValue handed to the prompt of a step (lines 140, 150, 163,
\* 169, 175)
initialValue(ans, step) ==
    CASE step = steps[1] -> OrElse(Get(ans, routename), Str(<<>>))
      [] step = steps[2] -> Get(ans, httpmethod)
      [] step = steps[3] -> Get(ans, template)
      [] step = steps[4] ->
            IF Get(ans, typescript) # Undefined
            THEN Get(ans, typescript)
            ELSE defaultConfig.useTypeScript
      [] step = steps[5] ->
            OrElse(Get(ans, basedirectory), defaultConfig.baseDir)

VARIABLES
    pc,           \* where main() is: "prompt", "request", "generate", or
                  \* exited: "cancelled", "done", "failed"
    currentStep,  \* the cursor into steps, 0-based
    answers,      \* the answers object
    promptError,  \* the validation message the open prompt shows, "" if none
    disk,         \* the file system
    console,      \* what the program printed through console and p.*
    exitCode,     \* the process exit code, NoExit while it runs
    emitCalls,    \* how many times generateApiRoute has been called
    request,      \* the argument of the last generateApiRoute call
    emitted,      \* what that call computed: threw, error, filePath, content
    fsCalls,      \* the fs calls that have completed on the disk, in order
    lastFault,    \* what the operating system did to the last call's fs calls
    runs          \* how many times the program has been started on the disk

vars == <<pc, currentStep, answers, promptError, disk, console, exitCode,
          emitCalls, request, emitted, fsCalls, lastFault, runs>>

NoExit == -1

NoRequest ==
    [routeName |-> Undefined,
     config |-> [method |-> Undefined, template |-> Undefined],
     options |-> [useTypeScript |-> Undefined, baseDir |-> Undefined]]

NothingEmitted ==
    [threw |-> FALSE, error |-> "", filePath |-> NoPath, content |-> NoContent]

(***************************************************************************)
(* What the user may type or pick, and the disks a run may start on        *)
(***************************************************************************)
\* Route Name prompt: empty, blank, the word back, a plain name, a nested
\* name, a name that climbs out of app/api, a name with an empty segment,
\* a name with a "." segment and a trailing "/"
RouteNameInputs ==
    { <<>>, <<" ", " ">>, back, <<"a">>, <<"a", "/", "b">>,
      <<".", ".", "/", ".", ".", "/", ".", ".">>, <<"a", "/", "/", "b">>,
      <<".", "/", "a", "/">> }

\* Base Directory prompt: empty, the word back, an absolute and a relative
\* directory
BaseDirectoryInputs == { <<>>, back, <<"/", "t">>, <<"t">> }

\* the values of the select options, 'back' last
MethodOptions == Range(HttpMethod) \cup {back}
TemplateOptions == Range(TemplateKeys) \cup {back}

\* the outcomes of the operating system at the two fs calls
Faults == {"none", "mkdir", "write"}

AbsPath(segs) == <<"/">> \o JoinWith(segs, "/")

OldContent == <<"old">>

ExistingRoute == AbsPath(<< <<"w">>, app, api, <<"a">>, routeDot \o js >>)

FreshDisk == [files |-> <<>>, dirs |-> {<<"/">>, Cwd}]

\* a route file is already there
DiskWithRoute ==
    [files |-> [q \in {ExistingRoute} |-> OldContent],
     dirs |-> Ancestors(dirname(ExistingRoute))]

\* app is a regular file, so app/api cannot be created
DiskWithAppFile ==
    [files |-> [q \in {AbsPath(<< <<"w">>, app >>)} |-> OldContent],
     dirs |-> {<<"/">>, Cwd}]

\* a directory sits where the route file goes
DiskWithRouteDir ==
    [files |-> <<>>, dirs |-> Ancestors(ExistingRoute)]

InitialDisks == {FreshDisk, DiskWithRoute, DiskWithAppFile, DiskWithRouteDir}

(***************************************************************************)
(* Init: main() has shown its intro and is about to open the first prompt  *)
(***************************************************************************)
Init ==
    /\ pc = "prompt"
    /\ currentStep = 0
    /\ answers = <<>>
    /\ promptError = ""
    /\ disk \in InitialDisks
    /\ console = <<>>
    /\ exitCode = NoExit
    /\ emitCalls = 0
    /\ request = NoRequest
    /\ emitted = NothingEmitted
    /\ fsCalls = <<>>
    /\ lastFault = "none"
    /\ runs = 1

Said(stream, text) ==
    [stream |-> stream, text |-> text, arg |-> Undefined, detail |-> ""]

\* the tail of the loop body, from the isCancel test to the end of the
\* iteration, and the loop test that follows
LoopBody(answer) ==
    /\ pc = "prompt"
    /\ promptError' = ""
    /\ IF isCancel(answer)
       THEN /\ console' = Append(console, Said("cancel", "Operation cancelled."))
            /\ exitCode' = 0
            /\ pc' = "cancelled"
            /\ UNCHANGED <<currentStep, answers>>
       ELSE /\ currentStep' = StepAfter(currentStep, answer)
            /\ answers' = AnswersAfter(answers, currentStep, answer)
            /\ pc' = IF LoopContinues(currentStep') THEN "prompt" ELSE "request"
            /\ UNCHANGED <<console, exitCode>>
    /\ UNCHANGED <<disk, emitCalls, request, emitted, fsCalls, lastFault, runs>>

AtStep(i) == pc = "prompt" /\ currentStep = i

\* p.text at Route Name returns a value its validate callback accepts
SubmitRouteName ==
    \E value \in RouteNameInputs :
        /\ AtStep(0)
        /\ validate(value) = ""
        /\ LoopBody(Str(value))

\* the validate callback rejects the value: the prompt stays open and shows
\* the message
RejectRouteName ==
    \E value \in RouteNameInputs :
        /\ AtStep(0)
        /\ validate(value) # ""
        /\ promptError' = validate(value)
        /\ UNCHANGED <<pc, currentStep, answers, disk, console, exitCode,
                       emitCalls, request, emitted, fsCalls, lastFault, runs>>

SelectMethod ==
    \E value \in MethodOptions : AtStep(1) /\ LoopBody(Str(value))

SelectTemplate ==
    \E value \in TemplateOptions : AtStep(2) /\ LoopBody(Str(value))

ConfirmTypeScript ==
    \E value \in BOOLEAN : AtStep(3) /\ LoopBody(Bool(value))

\* p.text at Base Directory: any text; an empty submission comes back as ''
\* or as undefined, depending on the prompt library
SubmitBaseDirectory ==
    \E answer \in {Str(value) : value \in BaseDirectoryInputs} \cup {Undefined} :
        AtStep(4) /\ LoopBody(answer)

\* the user aborts the open prompt, whichever it is
CancelPrompt ==
    /\ pc = "prompt"
    /\ LoopBody(CancelSymbol)

\* lines 193-201: config and options are built from the answers
BuildRequest ==
    /\ pc = "request"
    /\ request' =
        [routeName |-> Get(answers, routename),
         config |-> [method |-> Get(answers, httpmethod),
                     template |-> templates(Get(answers, template))],
         options |-> [useTypeScript |-> Get(answers, typescript),
                      baseDir |-> OrElse(Get(answers, basedirectory),
                                         defaultConfig.baseDir)]]
    /\ pc' = "generate"
    /\ UNCHANGED <<currentStep, answers, promptError, disk, console, exitCode,
                   emitCalls, emitted, fsCalls, lastFault, runs>>

\* lines 203-209: generateApiRoute is awaited, then the spinner stops with
\* its success text, the outro is shown, and main() returns.  Lines 212-215:
\* had the awaited promise rejected, main() would reject and the handler of
\* main().catch would print the error and exit with code 1.
Generate ==
    /\ pc = "generate"
    /\ \E fault \in Faults :
        LET r == generateApiRoute(request.routeName, request.config,
                                  request.options, disk, fault)
        IN /\ disk' = r.disk
           /\ emitted' = [threw |-> r.threw, error |-> r.error,
                          filePath |-> r.filePath, content |-> r.content]
           /\ lastFault' = fault
           /\ fsCalls' = fsCalls \o r.fsCalls
           /\ console' = console \o r.console
                \o (IF r.rejected
                    THEN <<Said("uncaught", "An error occurred:")>>
                    ELSE <<Said("spinner", "API route generated successfully"),
                           Said("outro", "API route generation complete!")>>)
           /\ exitCode' = IF r.rejected THEN 1 ELSE 0
           /\ pc' = IF r.rejected THEN "failed" ELSE "done"
    /\ emitCalls' = emitCalls + 1
    /\ UNCHANGED <<currentStep, answers, promptError, request, runs>>

Next ==
    \/ SubmitRouteName
    \/ RejectRouteName
    \/ SelectMethod
    \/ SelectTemplate
    \/ ConfirmTypeScript
    \/ SubmitBaseDirectory
    \/ CancelPrompt
    \/ BuildRequest
    \/ Generate

Spec == Init /\ [][Next]_vars

\* main() is not suspended when the loop ends: the statements after the
\* while run without waiting for anyone.  Nothing makes the user answer a
\* prompt, so no fairness is stated for the prompts.
SpecLive ==
    /\ Init /\ [][Next]_vars
    /\ WF_vars(BuildRequest)

(***************************************************************************)
(* The emitter on its own: generateApiRoute is handed a request drawn from *)
(* a bounded set, well-formed or not, and the program may be started again *)
(* with the same request on the disk the run before left.                  *)
(***************************************************************************)
MaxLen == 2
MaxRuns == 2

PathAlphabet == {"a", "/", "."}

StringsUpTo(n) == UNION {[1..k -> PathAlphabet] : k \in 0..n}

EmitterRouteNames == {Str(v) : v \in StringsUpTo(MaxLen)} \cup {Undefined}
EmitterMethods == {Str(GET), Undefined}
EmitterTemplates == {templates(Str(basic)), Undefined}
EmitterFlags == {Bool(TRUE), Bool(FALSE), Undefined}
EmitterBaseDirs == {Str(<<"/", "t">>), Str(<<"t", "/">>), Undefined}

InitEmitter ==
    /\ pc = "generate"
    /\ currentStep = Len(steps)
    /\ answers = <<>>
    /\ promptError = ""
    /\ disk \in InitialDisks
    /\ console = <<>>
    /\ exitCode = NoExit
    /\ emitCalls = 0
    /\ request \in [routeName : EmitterRouteNames,
                    config : [method : EmitterMethods, template : EmitterTemplates],
                    options : [useTypeScript : EmitterFlags, baseDir : EmitterBaseDirs]]
    /\ emitted = NothingEmitted
    /\ fsCalls = <<>>
    /\ lastFault = "none"
    /\ runs = 1

\* the program is started again and reaches generateApiRoute with the same
\* request; the disk is what the run before left
RunAgain ==
    /\ pc = "done"
    /\ runs < MaxRuns
    /\ runs' = runs + 1
    /\ pc' = "generate"
    /\ console' = <<>>
    /\ exitCode' = NoExit
    /\ emitCalls' = 0
    /\ emitted' = NothingEmitted
    /\ lastFault' = "none"
    /\ UNCHANGED <<currentStep, answers, promptError, disk, request, fsCalls>>

NextEmitter ==
    \/ Generate
    \/ RunAgain

SpecEmitter == InitEmitter /\ [][NextEmitter]_vars

(***************************************************************************)
(* Properties of the wizard and the emitter                                *)
(***************************************************************************)
StepKeys == {KeyOf(steps[i]) : i \in DOMAIN steps}

Count(seq, P(_)) == Cardinality({i \in DOMAIN seq : P(seq[i])})

IsErrorEntry(e) == e.stream = "error"
IsWrite(c) == c = "writeFileSync"

\* C1: cancellation is safe at every step.  At every open prompt the user
\* can cancel; cancelling moves main() to the terminal state Cancelled with
\* exit code 0 and leaves the disk alone; in Cancelled the emitter has not
\* been called, no fs call has completed, and nothing further can happen.
C1_CancelSafe ==
    /\ [](/\ pc = "prompt" => ENABLED CancelPrompt
          /\ pc = "cancelled" =>
                /\ exitCode = 0
                /\ emitCalls = 0
                /\ fsCalls = <<>>
                /\ disk \in InitialDisks
                /\ ~ENABLED Next)
    /\ [][CancelPrompt =>
            /\ pc' = "cancelled"
            /\ exitCode' = 0
            /\ disk' = disk
            /\ answers' = answers]_vars

\* cancelled at the HTTP Method prompt after answers were given and the
\* user went back
C1_Witness ==
    /\ pc = "cancelled"
    /\ currentStep = 1
    /\ httpmethod \in DOMAIN answers

\* C2: no partial generation and no repetition.  generateApiRoute is called
\* at most once in a run; main() gets past the loop only with the cursor
\* past the last step and an answer stored under each of the five keys; a
\* failed emission prints exactly one error and the file is written at most
\* once.
C2_EmitOnceWhenComplete ==
    /\ emitCalls <= 1
    /\ pc \in {"request", "generate", "done"} =>
          /\ currentStep = Len(steps)
          /\ DOMAIN answers = StepKeys
    /\ emitCalls = 1 => pc = "done"
    /\ Count(console, IsErrorEntry) = (IF emitted.threw THEN 1 ELSE 0)
    /\ Count(fsCalls, IsWrite) <= 1

\* a run whose emission failed has ended
C2_Witness ==
    /\ pc = "done"
    /\ emitCalls = 1
    /\ emitted.threw

\* C3: navigation preserves answers.  A step of the wizard that does not
\* advance the cursor leaves the answers object unchanged; a step that
\* advances it from i stores the answer of step i and changes no other.
C3_NavigationPreservesAnswers ==
    [][pc = "prompt" =>
        /\ currentStep' <= currentStep => answers' = answers
        /\ currentStep' = currentStep + 1 =>
              /\ DOMAIN answers' = DOMAIN answers \cup {KeyOf(steps[currentStep + 1])}
              /\ \A k \in DOMAIN answers \ {KeyOf(steps[currentStep + 1])} :
                    answers'[k] = answers[k]]_vars

\* back at the HTTP Method prompt, coming from Template, with the route
\* name and the method still stored
C3_Witness ==
    /\ pc = "prompt"
    /\ currentStep = 1
    /\ {routename, httpmethod} \subseteq DOMAIN answers

\* C4: Route Name validation.  A value whose trimmed form is empty gets a
\* non-empty message; showing the message changes neither the cursor nor
\* the answers nor the position of main(); a stored route name always has a
\* non-empty trimmed form.
C4_RouteNameValidated ==
    /\ [](/\ \A value \in RouteNameInputs :
                trim(value) = <<>> => validate(value) # ""
          /\ promptError # "" => pc = "prompt" /\ currentStep = 0
          /\ routename \in DOMAIN answers =>
                /\ IsString(answers[routename])
                /\ trim(answers[routename].v) # <<>>)
    /\ [][promptError' # "" =>
            /\ currentStep' = currentStep
            /\ answers' = answers
            /\ pc' = pc]_vars

\* a blank route name was rejected on re-entry, the earlier answer kept
C4_Witness ==
    /\ promptError # ""
    /\ routename \in DOMAIN answers


\* the values generateApiRoute works with after its destructuring defaults
UsedFlag(req) ==
    IF req.options.useTypeScript.t = "undefined"
    THEN defaultConfig.useTypeScript ELSE req.options.useTypeScript

UsedBaseDir(req) ==
    IF req.options.baseDir.t = "undefined"
    THEN defaultConfig.baseDir ELSE req.options.baseDir

\* <baseDir>/app/api/<s1>/<s2>/.../route.<ext> with the segments of the
\* route name exactly as split gives them
VerbatimPath(baseDir, routeName, extension) ==
    JoinWith(<<baseDir, app, api>> \o split(routeName, "/")
             \o <<routeDot \o extension>>, "/")

\* no segment is empty, "." or ".."
PlainSegments(routeName) ==
    \A i \in DOMAIN split(routeName, "/") :
        split(routeName, "/")[i] \notin {<<>>, Dot, DotDot}

\* a directory path in normalized form that does not end in "/"
CleanDir(dir) ==
    normalize(dir) = dir /\ dir[Len(dir)] # "/"

PathComputed == emitCalls = 1 /\ emitted.filePath # NoPath

\* C5 as stated: the destination is the base directory, app, api, the
\* segments of the route name verbatim, and route.<ext>.
C5_VerbatimPath ==
    PathComputed =>
        emitted.filePath =
            VerbatimPath(UsedBaseDir(request).v, request.routeName.v,
                         IF Truthy(UsedFlag(request)) THEN ts ELSE js)

\* C5, amended: the destination is the normalized form of that path, as
\* path.join gives it (empty and "." segments dropped, ".." taking the
\* segment before it away), with ext 'ts' if the flag is set and 'js'
\* otherwise; it is that path itself when the base directory is normalized
\* without a trailing "/" and no segment of the route name is empty, "."
\* or "..".
C5_NormalizedPath ==
    PathComputed =>
        LET verbatim ==
                VerbatimPath(UsedBaseDir(request).v, request.routeName.v,
                             IF Truthy(UsedFlag(request)) THEN ts ELSE js)
        IN /\ emitted.filePath = normalize(verbatim)
           /\ (/\ PlainSegments(request.routeName.v)
               /\ CleanDir(UsedBaseDir(request).v))
              => emitted.filePath = verbatim

\* route 'a//b' with TypeScript under /t was written to /t/app/api/a/b/route.ts
C5_Witness ==
    /\ pc = "done"
    /\ ~emitted.threw
    /\ request.routeName = Str(<<"a", "/", "/", "b">>)
    /\ emitted.filePath =
          AbsPath(<< <<"t">>, app, api, <<"a">>, <<"b">>, routeDot \o ts >>)

IsPrefix(p, q) == Len(p) <= Len(q) /\ SubSeq(q, 1, Len(p)) = p

\* path lies below directory dir
IsUnder(dir, path) ==
    IsPrefix(IF dir = <<"/">> THEN dir ELSE dir \o <<"/">>, path)

\* C6: output containment.  Whenever the emitter has written its file, the
\* file lies under <baseDir>/app/api.
C6_Contained ==
    (emitCalls = 1 /\ ~emitted.threw) =>
        IsUnder(resolve(join(<<UsedBaseDir(request).v, app, api>>)),
                resolve(emitted.filePath))

\* C7: emission errors are swallowed.  When the emitter fails in a run that
\* completed the wizard, the run ends having printed exactly one error, which
\* names the route, then the spinner's success text and the outro, and its
\* exit code is 0; no run ends with exit code 1.
C7_EmissionErrorsSwallowed ==
    /\ exitCode \in {NoExit, 0}
    /\ (pc = "done" /\ emitted.threw) =>
          /\ exitCode = 0
          /\ console =
                << [stream |-> "error",
                    text |-> "Error generating API route handler",
                    arg |-> request.routeName, detail |-> emitted.error],
                   Said("spinner", "API route generated successfully"),
                   Said("outro", "API route generation complete!") >>

\* writeFileSync failed after the directories were made, and the run ended
C7_Witness ==
    /\ pc = "done"
    /\ emitted.error = "writeFileSync"
    /\ fsCalls = <<"mkdirSync">>

\* what the destination holds after one run of the request on a fresh disk
SingleRunContent(req) ==
    LET r == generateApiRoute(req.routeName, req.config, req.options,
                              FreshDisk, "none")
    IN r.disk.files[resolve(r.filePath)]

\* C8: emission is idempotent and overwriting.  After a successful
\* emission, whatever the disk held before and however often the request
\* has been emitted, the destination holds exactly what one run on a fresh
\* disk leaves there; and while the system does not refuse, an fs call of
\* the emitter fails only where a regular file stands in the place of a
\* directory or a directory in the place of the file, never because the
\* file or its directories exist.
C8_IdempotentOverwrite ==
    /\ (emitCalls = 1 /\ ~emitted.threw) =>
          /\ resolve(emitted.filePath) \in DOMAIN disk.files
          /\ disk.files[resolve(emitted.filePath)] = SingleRunContent(request)
    /\ (/\ emitCalls = 1
        /\ emitted.error \in {"mkdirSync", "writeFileSync"}
        /\ lastFault = "none") =>
          /\ resolve(emitted.filePath) \notin DOMAIN disk.files
          /\ \/ \E a \in Ancestors(dirname(emitted.filePath)) :
                    a \in DOMAIN disk.files
             \/ resolve(emitted.filePath) \in disk.dirs

\* the second run of a request wrote the file a second time
C8_Witness ==
    /\ runs = 2
    /\ emitCalls = 1
    /\ ~emitted.threw
    /\ Count(fsCalls, IsWrite) = 2

\* the place of a fragment in a rendered text, 0 when it is not there
IndexOf(text, fragment) ==
    IF \E i \in DOMAIN text : text[i] = fragment
    THEN CHOOSE i \in DOMAIN text :
            text[i] = fragment /\ \A j \in 1..(i - 1) : text[j] # fragment
    ELSE 0

\* the identifier of the exported async function of a rendered text
ExportedName(text) ==
    SubSeq(text, IndexOf(text, "export async function ") + 1,
                 IndexOf(text, "(request") - 1)

\* C9: the handler name is the selected method.  Once the request is
\* built, its method is the answer stored at the HTTP Method step, one of
\* the five methods; the text rendered from it exports an async function of
\* exactly that name.
C9_HandlerNameIsMethod ==
    /\ pc \in {"generate", "done"} =>
          /\ request.config.method = answers[httpmethod]
          /\ answers[httpmethod].v \in Range(HttpMethod)
    /\ (pc = "done" /\ emitted.content # NoContent) =>
          ExportedName(emitted.content) = answers[httpmethod].v

\* a typed withValidation handler for DELETE was written
C9_Witness ==
    /\ pc = "done"
    /\ ~emitted.threw
    /\ request.config.template.v = withValidation
    /\ answers[httpmethod] = Str(DELETE)
    /\ answers[typescript] = Bool(TRUE)

\* an answer is empty: '' or undefined
IsEmptyAnswer(x) == x.t = "undefined" \/ (x.t = "string" /\ x.v = <<>>)

\* C10: base-directory default.  Once the request is built, its base
\* directory is the working directory if the stored Base Directory answer is
\* empty and that answer otherwise, and its TypeScript flag is the stored
\* TypeScript answer; the emitter computes its path from that base
\* directory and takes its extension from that flag.
C10_BaseDirDefault ==
    pc \in {"generate", "done"} =>
        LET base == IF IsEmptyAnswer(answers[basedirectory])
                    THEN Str(Cwd) ELSE answers[basedirectory]
        IN /\ request.options.baseDir = base
           /\ request.options.useTypeScript = answers[typescript]
           /\ pc = "done" =>
                emitted.filePath =
                    join(<<base.v, app, api>>
                         \o split(answers[routename].v, "/")
                         \o <<routeDot \o (IF answers[typescript].v THEN ts ELSE js)>>)

\* the Base Directory answer was '', and the file went under the working
\* directory
C10_Witness ==
    /\ pc = "done"
    /\ ~emitted.threw
    /\ answers[basedirectory] = Str(<<>>)
    /\ IsUnder(Cwd, emitted.filePath)


\* a step of the wizard that took an accepted input other than a
\* cancellation: the prompt returned and no validation message is showing
AcceptedInput ==
    /\ pc = "prompt"
    /\ pc' # "cancelled"
    /\ promptError' = ""

\* C11: go-back is confined to the two select steps.  At the Route Name,
\* TypeScript and Base Directory prompts every accepted input that is not a
\* cancellation stores an answer under the key of the step and advances the
\* cursor by 1.
C11_GoBackOnlyAtSelects ==
    [][(AcceptedInput /\ currentStep \in {0, 3, 4}) =>
          /\ currentStep' = currentStep + 1
          /\ KeyOf(steps[currentStep + 1]) \in DOMAIN answers'
          /\ ~IsBack(answers'[KeyOf(steps[currentStep + 1])])]_vars

TypeErrors ==
    {"TypeError: routeName.split", "TypeError: path.join", "TypeError: getContent"}

Completed == pc \in {"request", "generate", "done", "failed"}
Cancelled == pc = "cancelled"

\* the open prompt gets an input
PromptAnswered ==
    \/ SubmitRouteName
    \/ RejectRouteName
    \/ SelectMethod
    \/ SelectTemplate
    \/ ConfirmTypeScript
    \/ SubmitBaseDirectory
    \/ CancelPrompt

\* a step that neither goes back nor shows a validation message
NoBackNoReject ==
    /\ currentStep' >= currentStep
    /\ promptError' = ""

\* C13: wizard termination.  If every prompt is eventually answered and
\* from some point on the user neither goes back nor submits a blank route
\* name, the wizard eventually is Completed or Cancelled; the two exclude
\* each other and neither is ever left; Completed comes with all five
\* answers stored.  Without the assumption nothing forces an end: from the
\* HTTP Method prompt the user can always advance to Template, and from
\* the Template prompt always go back to HTTP Method.
C13_WizardTerminates ==
    /\ (WF_vars(PromptAnswered) /\ <>[][NoBackNoReject]_vars)
          => <>(Completed \/ Cancelled)
    /\ [][/\ Cancelled => Cancelled'
          /\ Completed => Completed']_vars
    /\ [](/\ ~(Completed /\ Cancelled)
          /\ Completed => DOMAIN answers = StepKeys
          /\ AtStep(1) => ENABLED (SelectMethod /\ currentStep' = 2)
          /\ AtStep(2) => ENABLED (SelectTemplate /\ currentStep' = 1))

\* the loop has just ended with all five answers stored
C13_Witness ==
    /\ pc = "request"
    /\ DOMAIN answers = StepKeys
    /\ currentStep = Len(steps)

\* what one step may do to the cursor: move it forward by one, storing an
\* answer for the step left; move it back by one, storing nothing; or leave
\* it, storing nothing
CursorStep ==
    \/ /\ pc = "prompt"
       /\ currentStep' = currentStep + 1
       /\ KeyOf(steps[currentStep + 1]) \in DOMAIN answers'
    \/ /\ pc = "prompt"
       /\ currentStep > 0
       /\ currentStep' = currentStep - 1
       /\ answers' = answers
    \/ /\ currentStep' = currentStep
       /\ answers' = answers

\* C14: cursor invariant.  The cursor is always in 0..5; each step moves
\* it forward by one (an answer is stored), back by one (a go-back above
\* step 0) or not at all, and a go-back at step 0 leaves it at 0; the
\* wizard is Completed exactly when the cursor is 5; every step below the
\* cursor has a stored answer.
C14_CursorInvariant ==
    /\ [](/\ currentStep \in 0..Len(steps)
          /\ Completed <=> currentStep = Len(steps)
          /\ \A i \in 1..currentStep : KeyOf(steps[i]) \in DOMAIN answers
          /\ AtStep(0) => ENABLED (/\ SubmitRouteName
                                   /\ promptError' = ""
                                   /\ answers' = answers
                                   /\ currentStep' = 0))
    /\ [][CursorStep]_vars

\* back at the first prompt after a go-back from the second
C14_Witness ==
    /\ pc = "prompt"
    /\ currentStep = 0
    /\ routename \in DOMAIN answers

\* the default a prompt opens with when its step has no stored answer
FirstEntryDefault(i) ==
    CASE i = 0 -> Str(<<>>)
      [] i \in {1, 2} -> Undefined
      [] i = 3 -> Bool(FALSE)
      [] i = 4 -> Str(Cwd)

\* C15: defaults on (re-)entry.  Whenever a prompt is shown, its initial
\* value is the answer stored for its step if there is one; otherwise it
\* is empty text at Route Name, nothing preselected at HTTP Method and
\* Template, false at TypeScript, the working directory at Base Directory.
C15_DefaultsOnEntry ==
    pc = "prompt" =>
        LET step == steps[currentStep + 1]
            shown == initialValue(answers, step)
        IN  IF KeyOf(step) \in DOMAIN answers
            THEN shown = answers[KeyOf(step)]
            ELSE shown = FirstEntryDefault(currentStep)

\* the TypeScript prompt shown again, after a yes and a go-back from Base
\* Directory
C15_Witness ==
    /\ AtStep(3)
    /\ typescript \in DOMAIN answers
    /\ answers[typescript] = Bool(TRUE)

\* C16: 'back' is never stored.  No stored answer of any step is the
\* string 'back'; 'back' typed at the Route Name or Base Directory prompt
\* is accepted by the prompt and moves the cursor as a go-back does,
\* storing nothing; the request handed to generateApiRoute never has
\* 'back' as its route name or its base directory.
C16_BackNeverStored ==
    /\ \A k \in DOMAIN answers :
          ~(answers[k].t = "string" /\ answers[k].v = back)
    /\ request.routeName # Str(back)
    /\ request.options.baseDir # Str(back)
    /\ AtStep(0) => ENABLED (/\ SubmitRouteName
                             /\ currentStep' = 0
                             /\ answers' = answers)
    /\ AtStep(4) => ENABLED (/\ SubmitBaseDirectory
                             /\ currentStep' = 3
                             /\ answers' = answers)

\* the TypeScript prompt shown again after 'back' was typed at Base
\* Directory: the TypeScript answer is kept, no base directory is stored
C16_Witness ==
    /\ AtStep(3)
    /\ typescript \in DOMAIN answers
    /\ basedirectory \notin DOMAIN answers

\* the extension of a file path: what follows its last dot
ExtensionOfPath(filePath) == SubSeq(filePath, Len(filePath) - 1, Len(filePath))

\* a rendered text imports NextRequest and annotates its parameter with it
TypedImport(text) == IndexOf(text, "NextRequest, ") > 0
TypedParam(text) == IndexOf(text, ": NextRequest") > 0

\* extension and text of one emission agree: 'ts' with both the import and
\* the annotation, or 'js' with neither; an undefined flag gives 'js'
TypingAgrees(flag, filePath, text) ==
    /\ ExtensionOfPath(filePath) \in {ts, js}
    /\ ExtensionOfPath(filePath) = ts <=> (TypedImport(text) /\ TypedParam(text))
    /\ ExtensionOfPath(filePath) = js <=> (~TypedImport(text) /\ ~TypedParam(text))
    /\ flag = Undefined => ExtensionOfPath(filePath) = js

\* C17: extension and content agree on typing.  Whenever generateApiRoute
\* has rendered a text, the file path ends in 'ts' if and only if the text
\* has the NextRequest import and the NextRequest parameter annotation,
\* and in 'js' if and only if it has neither; an undefined flag gives 'js'
\* and untyped text.  The same holds of each of the four templates.
C17_ExtensionMatchesTyping ==
    /\ (emitCalls = 1 /\ emitted.content # NoContent) =>
          TypingAgrees(request.options.useTypeScript,
                       emitted.filePath, emitted.content)
    /\ \A key \in Range(TemplateKeys), flag \in EmitterFlags :
          LET useTypeScript == IF flag = Undefined
                               THEN defaultConfig.useTypeScript ELSE flag
          IN  TypingAgrees(flag, routeDot \o extensionOf(useTypeScript),
                           getContent(templates(Str(key)), Str(GET),
                                      Str(<<"a">>), useTypeScript))

\* a file was written for a request whose flag is undefined
C17_Witness ==
    /\ emitCalls = 1
    /\ ~emitted.threw
    /\ request.options.useTypeScript = Undefined
    /\ ExtensionOfPath(emitted.filePath) = js
    /\ ~TypedImport(emitted.content)

====
